---- MODULE Spec2Model ----
(***************************************************************************)
(* Model of src/src/main.ts: the action entry point run(), the class       *)
(* PullRequests (getSingle, getBetweenDates, filterCommits) and the        *)
(* function sortPullRequests.                                              *)
(*                                                                         *)
(* One call of one operation is explored per behaviour: Init picks the     *)
(* operation (op) and its arguments, the other operations' variables stay  *)
(* at their idle values.                                                   *)
(*                                                                         *)
(* Timestamps are integers 1..MaxTime; 0 stands for a null merged_at.      *)
(* Strings that the code inspects (commit summaries, exclude substrings)   *)
(* are sequences of one-character strings.                                 *)
(***************************************************************************)
EXTENDS Integers, Sequences, FiniteSets, TLC

\* ---------------------------------------------------------------- bounds
MaxPages == 3
MaxPageSize == 2
MaxTime == 2
MaxPullRequests == 3
MaxSortLen == 3
MaxCommits == 2
MaxExcludes == 2
MaxPrNumber == 3

\* null where a record is expected (a PullRequestInfo, pr.data)
Null == [null |-> TRUE]
\* commit.prNumber before it is assigned
Unassigned == -1
\* an action output that was never set; core.setOutput stores strings
Unset == "unset"

\* ------------------------------------------------------------- variables
VARIABLES
  op,               \* the operation this behaviour calls
  \* getBetweenDates
  pages,            \* what octokit.paginate.iterator would deliver, page by page
  fromDate,
  maxPullRequests,
  mergedPRs,
  pageIdx,          \* number of pages the loop body has been entered for
  requested,        \* number of page requests made to the platform
  fpc,              \* "idle" | "iter" | "returned" | "threw"
  fetchResult,
  fetchError,       \* "none" | "transport" | "auth" | "TypeError"
  infoLog,
  \* sortPullRequests
  pullRequests,     \* the argument as it was when sortPullRequests was called
  ascending,
  sortPc,           \* "idle" | "call" | "done"
  sortResult,
  \* filterCommits
  commits,          \* the CommitInfo objects handed in (prNumber is assigned in place)
  excludeMergeBranches,
  filteredCommits,
  ci,               \* number of commits the loop has gone through
  filterPc,         \* "idle" | "loop" | "done"
  filterResult,
  \* getSingle
  owner,
  repo,
  prNumber,
  apiOutcome,       \* what octokit.pulls.get does: "ok" | "not_found" | "transport" | "auth"
  apiData,          \* pr.data when the call succeeds
  singleResult,
  warnings,         \* the core.warning calls
  singleThrown,     \* getSingle rejected instead of returning
  spc,              \* "idle" | "call" | "done"
  \* run
  platform,         \* core.getInput('platform')
  configThrows,     \* reading path and configuration throws
  buildThrows,      \* ReleaseNotesBuilder.build() rejects
  result,           \* what build() resolves to
  outputFile,       \* core.getInput('outputFile')
  writeThrows,      \* writeOutput throws
  outputs,          \* the action outputs set with core.setOutput
  exitCode,         \* process.exitCode, set to 1 by core.setFailed
  failedMessage,    \* the message given to core.setFailed
  caught,           \* the catch block of run() was entered
  written,          \* writeOutput wrote the file
  rpc               \* "idle" | "start" | "inputs" | "build" | "write" | "done"

fetchVars == <<pages, fromDate, maxPullRequests, mergedPRs, pageIdx, requested,
               fpc, fetchResult, fetchError, infoLog>>
sortVars == <<pullRequests, ascending, sortPc, sortResult>>
filterVars == <<commits, excludeMergeBranches, filteredCommits, ci, filterPc, filterResult>>
singleVars == <<owner, repo, prNumber, apiOutcome, apiData, singleResult, warnings,
                singleThrown, spc>>
runInputs == <<platform, configThrows, buildThrows, result, outputFile, writeThrows>>
runVars == <<runInputs, outputs, exitCode, failedMessage, caught, written, rpc>>
vars == <<op, fetchVars, sortVars, filterVars, singleVars, runVars>>

\* ------------------------------------------------------ sortPullRequests
\* a.mergedAt.isBefore(b.mergedAt)
isBefore(a, b) == a < b

\* fromDate.isAfter(moment(x))
isAfter(a, b) == a > b

\* Mutation of Compare: the descending branch does not swap its parameters.
CompareNoSwap(x, y, asc) ==
  IF isBefore(x.mergedAt, y.mergedAt) THEN -1
  ELSE IF isBefore(y.mergedAt, x.mergedAt) THEN 1 ELSE 0

\* The comparator handed to Array.prototype.sort, called as cmp(x, y).
\* In the descending branch the parameters are named (b, a).
Compare(x, y, asc) ==
  IF asc
    THEN IF isBefore(x.mergedAt, y.mergedAt) THEN -1
         ELSE IF isBefore(y.mergedAt, x.mergedAt) THEN 1 ELSE 0
    ELSE IF isBefore(y.mergedAt, x.mergedAt) THEN -1
         ELSE IF isBefore(x.mergedAt, y.mergedAt) THEN 1 ELSE 0

\* Array.prototype.sort is a stable comparison sort: insert x behind every
\* element that does not compare greater than it.
RECURSIVE InsertSorted(_, _, _)
InsertSorted(x, s, asc) ==
  IF s = <<>> THEN <<x>>
  ELSE IF Compare(Head(s), x, asc) <= 0
         THEN <<Head(s)>> \o InsertSorted(x, Tail(s), asc)
         ELSE <<x>> \o s

RECURSIVE ArraySort(_, _)
ArraySort(s, asc) ==
  IF s = <<>> THEN <<>>
  ELSE InsertSorted(s[Len(s)], ArraySort(SubSeq(s, 1, Len(s) - 1), asc), asc)

sortPullRequests(prs, asc) == ArraySort(prs, asc)

\* ------------------------------------------------------- getBetweenDates
\* prs.filter(p => !!p.merged_at) mapped to PullRequestInfo
RECURSIVE MergedOf(_)
MergedOf(prs) ==
  IF prs = <<>> THEN <<>>
  ELSE IF Head(prs).merged_at # 0
         THEN <<[number |-> Head(prs).number, mergedAt |-> Head(prs).merged_at]>>
                \o MergedOf(Tail(prs))
         ELSE MergedOf(Tail(prs))

\* Mutation of FirstPRIsOld: the last item of the page is examined.
LastPRIsOld(prs, from) ==
  prs[Len(prs)].merged_at # 0 /\ isAfter(from, prs[Len(prs)].merged_at)

\* Mutation of FirstPRIsOld: isSameOrAfter instead of isAfter.
FirstPRIsNotNewer(prs, from) ==
  prs[1].merged_at # 0 /\ from >= prs[1].merged_at

\* firstPR.merged_at && fromDate.isAfter(moment(firstPR.merged_at)), prs non-empty
FirstPRIsOld(prs, from) ==
  prs[1].merged_at # 0 /\ isAfter(from, prs[1].merged_at)

\* mergedPRs.length >= maxPullRequests
ReachedMax(merged, max) == Len(merged) >= max

\* The pages a listing can consist of: entry j of page p has a unique number.
PageTimes == UNION {[1..n -> 0..MaxTime] : n \in 0..MaxPageSize}
Listings == UNION {[1..k -> PageTimes] : k \in 1..MaxPages}
MkPages(l) ==
  [p \in 1..Len(l) |->
     [j \in 1..Len(l[p]) |->
        [number |-> (p - 1) * MaxPageSize + j, merged_at |-> l[p][j]]]]

\* --------------------------------------------------------- filterCommits
\* the literal part of prRegex = /Merge pull request #(\d+)/
PrLiteral == <<"M", "e", "r", "g", "e", " ", "p", "u", "l", "l", " ", "r", "e", "q", "u", "e", "s", "t", " ", "#">>

Digits == {"0", "1", "2", "3", "4", "5", "6", "7", "8", "9"}

DigitValue(c) ==
  CASE c = "0" -> 0 [] c = "1" -> 1 [] c = "2" -> 2 [] c = "3" -> 3 [] c = "4" -> 4
    [] c = "5" -> 5 [] c = "6" -> 6 [] c = "7" -> 7 [] c = "8" -> 8 [] c = "9" -> 9

\* sub occupies positions i .. i + Len(sub) - 1 of s
OccursAt(s, i, sub) ==
  /\ i + Len(sub) - 1 <= Len(s)
  /\ \A k \in 1..Len(sub) : s[i + k - 1] = sub[k]

\* String.prototype.includes
includes(s, sub) ==
  \E i \in 1..(Len(s) + 1) : OccursAt(s, i, sub)

\* Mutation of Excluded: only the first exclude substring is tried.
ExcludedFirstOnly(summary, excludes) ==
  Len(excludes) >= 1 /\ includes(summary, excludes[1])

\* the inner loop over excludeMergeBranches: matched is set by the first
\* exclude substring the summary includes
Excluded(summary, excludes) ==
  \E k \in 1..Len(excludes) : includes(summary, excludes[k])

\* \d+ : the longest run of digits of s that starts at position i
RECURSIVE DigitRun(_, _)
DigitRun(s, i) ==
  IF i <= Len(s) /\ s[i] \in Digits THEN <<s[i]>> \o DigitRun(s, i + 1) ELSE <<>>

\* Mutation of MatchPr: the group is (\d), one digit, instead of (\d+).
MatchPrOneDigit(summary) ==
  LET starts == {i \in 1..Len(summary) :
                   /\ OccursAt(summary, i, PrLiteral)
                   /\ DigitRun(summary, i + Len(PrLiteral)) # <<>>}
  IN IF starts = {} THEN <<>>
     ELSE LET first == CHOOSE i \in starts : \A j \in starts : i <= j
          IN <<summary[first + Len(PrLiteral)]>>

\* commit.summary.match(prRegex): the capture group of the leftmost match;
\* the empty sequence stands for null (no match), a capture is never empty
MatchPr(summary) ==
  LET starts == {i \in 1..Len(summary) :
                   /\ OccursAt(summary, i, PrLiteral)
                   /\ DigitRun(summary, i + Len(PrLiteral)) # <<>>}
  IN IF starts = {} THEN <<>>
     ELSE LET first == CHOOSE i \in starts : \A j \in starts : i <= j
          IN DigitRun(summary, first + Len(PrLiteral))

\* Number.parseInt(digits, 10)
RECURSIVE parseInt(_)
parseInt(d) ==
  IF d = <<>> THEN 0 ELSE parseInt(SubSeq(d, 1, Len(d) - 1)) * 10 + DigitValue(d[Len(d)])

\* commit summaries the reconciliation is run on
Summaries == {
  <<"M", "e", "r", "g", "e", " ", "p", "u", "l", "l", " ", "r", "e", "q", "u", "e", "s", "t", " ", "#", "7", " ", "f", "r", "o", "m", " ", "a", "/", "d", "e", "v">>,
  <<"M", "e", "r", "g", "e", " ", "p", "u", "l", "l", " ", "r", "e", "q", "u", "e", "s", "t", " ", "#", "1", "2">>,
  <<"R", "e", "v", "e", "r", "t", " ", "M", "e", "r", "g", "e", " ", "p", "u", "l", "l", " ", "r", "e", "q", "u", "e", "s", "t", " ", "#", "7">>,
  <<"m", "e", "r", "g", "e", " ", "p", "u", "l", "l", " ", "r", "e", "q", "u", "e", "s", "t", " ", "#", "7">>,
  <<"M", "e", "r", "g", "e", " ", "p", "u", "l", "l", " ", "r", "e", "q", "u", "e", "s", "t", " ", "#", "x">>,
  <<"M", "e", "r", "g", "e", " ", "p", "u", "l", "l", " ", "r", "e", "q", "u", "e", "s", "t", " ", "#", "M", "e", "r", "g", "e", " ", "p", "u", "l", "l", " ", "r", "e", "q", "u", "e", "s", "t", " ", "#", "3">>,
  <<"F", "i", "x", " ", "d", "e", "v">> }

\* exclude substrings
ExcludeStrings == {<<"d", "e", "v">>, <<"#", "7">>, <<>>}

CommitLists ==
  UNION {[1..n -> Summaries] : n \in 0..MaxCommits}
ExcludeLists ==
  UNION {[1..n -> ExcludeStrings] : n \in 0..MaxExcludes}

\* if(excludeMergeBranches): an array, even an empty one, is truthy
Truthy(excludes) == TRUE

\* ------------------------------------------------------------- getSingle
Owners == {"o1", "o2"}
Repos == {"r1", "r2"}

\* Mutation of getSingle: the catch block warns and throws the error again.
getSingleRethrow(o, r, n, outcome, data) ==
  IF outcome = "ok"
    THEN [result |-> [number |-> data.number, mergedAt |-> data.merged_at],
          warned |-> <<>>, thrown |-> FALSE]
    ELSE [result |-> Null,
          warned |-> <<[owner |-> o, repo |-> r, prNumber |-> n, message |-> outcome]>>,
          thrown |-> TRUE]

\* The body of getSingle: the try block when octokit.pulls.get resolves, the
\* catch block (a warning and null) when it rejects, whatever the reason.
getSingle(o, r, n, outcome, data) ==
  IF outcome = "ok"
    THEN [result |-> [number |-> data.number, mergedAt |-> data.merged_at],
          warned |-> <<>>, thrown |-> FALSE]
    ELSE [result |-> Null,
          warned |-> <<[owner |-> o, repo |-> r, prNumber |-> n, message |-> outcome]>>,
          thrown |-> FALSE]

\* ------------------------------------------------------------------- run
\* isSupportedPlatform: type in supportedPlatform
isSupportedPlatform(type) == type \in {"github", "gitea"}

\* core.getInput('platform') || 'github'
PlatformOrDefault(p) == IF p = "" THEN "github" ELSE p

Platforms == {"", "github", "gitea", "gitlab"}
Changelogs == {"", "notes"}
OutputFiles == {"", "CHANGELOG.md"}

\* ------------------------------------------------------------------ Init
IdleFetch ==
  /\ pages = <<>> /\ fromDate = 0 /\ maxPullRequests = 0 /\ mergedPRs = <<>>
  /\ pageIdx = 0 /\ requested = 0 /\ fpc = "idle" /\ fetchResult = <<>>
  /\ fetchError = "none" /\ infoLog = <<>>

IdleSort ==
  /\ pullRequests = <<>> /\ ascending = TRUE /\ sortPc = "idle" /\ sortResult = <<>>

IdleFilter ==
  /\ commits = <<>> /\ excludeMergeBranches = <<>> /\ filteredCommits = <<>>
  /\ ci = 0 /\ filterPc = "idle" /\ filterResult = <<>>

IdleSingle ==
  /\ owner = "" /\ repo = "" /\ prNumber = 0 /\ apiOutcome = "ok" /\ apiData = Null
  /\ singleResult = Null /\ warnings = <<>> /\ singleThrown = FALSE /\ spc = "idle"

IdleRun ==
  /\ platform = "" /\ configThrows = FALSE /\ buildThrows = FALSE /\ result = ""
  /\ outputFile = "" /\ writeThrows = FALSE
  /\ outputs = [failed |-> Unset, changelog |-> Unset]
  /\ exitCode = 0 /\ failedMessage = "" /\ caught = FALSE /\ written = FALSE
  /\ rpc = "idle"

InitGetBetweenDates ==
  /\ op = "getBetweenDates"
  /\ \E l \in Listings : pages = MkPages(l)
  /\ fromDate \in 1..MaxTime
  /\ maxPullRequests \in 1..MaxPullRequests
  /\ mergedPRs = <<>> /\ pageIdx = 0 /\ requested = 0 /\ fpc = "iter"
  /\ fetchResult = <<>> /\ fetchError = "none" /\ infoLog = <<>>
  /\ IdleSort /\ IdleFilter /\ IdleSingle /\ IdleRun

SortInputs ==
  UNION {[1..n -> 1..MaxTime] : n \in 0..MaxSortLen}

InitSort ==
  /\ op = "sortPullRequests"
  /\ \E t \in SortInputs :
       pullRequests = [i \in 1..Len(t) |-> [number |-> i, mergedAt |-> t[i]]]
  /\ ascending \in BOOLEAN
  /\ sortPc = "call" /\ sortResult = <<>>
  /\ IdleFetch /\ IdleFilter /\ IdleSingle /\ IdleRun

InitFilterCommits ==
  /\ op = "filterCommits"
  /\ \E c \in CommitLists :
       commits = [i \in 1..Len(c) |-> [sha |-> i, summary |-> c[i], prNumber |-> Unassigned]]
  /\ excludeMergeBranches \in ExcludeLists
  /\ filteredCommits = <<>> /\ ci = 0 /\ filterPc = "loop" /\ filterResult = <<>>
  /\ IdleFetch /\ IdleSort /\ IdleSingle /\ IdleRun

InitGetSingle ==
  /\ op = "getSingle"
  /\ owner \in Owners /\ repo \in Repos /\ prNumber \in 1..MaxPrNumber
  /\ apiOutcome \in {"ok", "not_found", "transport", "auth"}
  /\ IF apiOutcome = "ok"
       THEN \E t \in 0..MaxTime : apiData = [number |-> prNumber, merged_at |-> t]
       ELSE apiData = Null
  /\ singleResult = Null /\ warnings = <<>> /\ singleThrown = FALSE /\ spc = "call"
  /\ IdleFetch /\ IdleSort /\ IdleFilter /\ IdleRun

InitRun ==
  /\ op = "run"
  /\ platform \in Platforms
  /\ configThrows \in BOOLEAN /\ buildThrows \in BOOLEAN /\ writeThrows \in BOOLEAN
  /\ result \in Changelogs /\ outputFile \in OutputFiles
  /\ outputs = [failed |-> Unset, changelog |-> Unset]
  /\ exitCode = 0 /\ failedMessage = "" /\ caught = FALSE /\ written = FALSE
  /\ rpc = "start"
  /\ IdleFetch /\ IdleSort /\ IdleFilter /\ IdleSingle

Init == InitGetBetweenDates \/ InitSort \/ InitFilterCommits \/ InitGetSingle \/ InitRun

\* --------------------------------------------------------------- actions
\* One iteration of the for-await loop: the page arrives and the body runs.
NextPage ==
  /\ op = "getBetweenDates" /\ fpc = "iter" /\ pageIdx < Len(pages)
  /\ LET prs == pages[pageIdx + 1]
         merged == mergedPRs \o MergedOf(prs)
     IN /\ pageIdx' = pageIdx + 1
        /\ requested' = requested + 1
        /\ IF prs = <<>>
             THEN \* prs[0] is undefined: reading firstPR.merged_at throws
                  /\ fpc' = "threw" /\ fetchError' = "TypeError"
                  /\ mergedPRs' = merged
                  /\ UNCHANGED <<fetchResult, infoLog>>
             ELSE IF FirstPRIsOld(prs, fromDate) \/ ReachedMax(merged, maxPullRequests)
               THEN /\ infoLog' = IF ReachedMax(merged, maxPullRequests)
                                    THEN Append(infoLog, maxPullRequests)
                                    ELSE infoLog
                    /\ mergedPRs' = sortPullRequests(merged, TRUE)
                    /\ fetchResult' = sortPullRequests(merged, TRUE)
                    /\ fpc' = "returned"
                    /\ UNCHANGED fetchError
               ELSE /\ mergedPRs' = merged
                    /\ UNCHANGED <<fpc, fetchResult, fetchError, infoLog>>
  /\ UNCHANGED <<op, pages, fromDate, maxPullRequests, sortVars, filterVars, singleVars, runVars>>

\* The request for the next page is rejected by the platform; the loop has
\* no try/catch, so the rejection leaves getBetweenDates.
PageFails ==
  /\ op = "getBetweenDates" /\ fpc = "iter" /\ pageIdx < Len(pages)
  /\ requested' = requested + 1
  /\ \E kind \in {"transport", "auth"} : fetchError' = kind
  /\ fpc' = "threw"
  /\ UNCHANGED <<op, pages, fromDate, maxPullRequests, mergedPRs, pageIdx,
                 fetchResult, infoLog, sortVars, filterVars, singleVars, runVars>>

\* The iterator is done: the return after the loop.
Exhausted ==
  /\ op = "getBetweenDates" /\ fpc = "iter" /\ pageIdx = Len(pages)
  /\ mergedPRs' = sortPullRequests(mergedPRs, TRUE)
  /\ fetchResult' = sortPullRequests(mergedPRs, TRUE)
  /\ fpc' = "returned"
  /\ UNCHANGED <<op, pages, fromDate, maxPullRequests, pageIdx, requested,
                 fetchError, infoLog, sortVars, filterVars, singleVars, runVars>>

\* A direct call of the exported sortPullRequests.
SortCall ==
  /\ op = "sortPullRequests" /\ sortPc = "call"
  /\ sortResult' = sortPullRequests(pullRequests, ascending)
  /\ sortPc' = "done"
  /\ UNCHANGED <<op, pullRequests, ascending, fetchVars, filterVars, singleVars, runVars>>

\* One iteration of the loop over commits in filterCommits.
FilterCommit ==
  /\ op = "filterCommits" /\ filterPc = "loop" /\ ci < Len(commits)
  /\ LET commit == commits[ci + 1]
         match == MatchPr(commit.summary)
     IN /\ ci' = ci + 1
        /\ IF Truthy(excludeMergeBranches) /\ Excluded(commit.summary, excludeMergeBranches)
             THEN UNCHANGED <<commits, filteredCommits>>
             ELSE IF match = <<>>
               THEN UNCHANGED <<commits, filteredCommits>>
               ELSE /\ commits' = [commits EXCEPT ![ci + 1].prNumber = parseInt(match)]
                    /\ filteredCommits' =
                         Append(filteredCommits,
                                [commit EXCEPT !.prNumber = parseInt(match)])
  /\ UNCHANGED <<op, excludeMergeBranches, filterPc, filterResult,
                 fetchVars, sortVars, singleVars, runVars>>

\* The loop is over: return filteredCommits.
FilterReturn ==
  /\ op = "filterCommits" /\ filterPc = "loop" /\ ci = Len(commits)
  /\ filterResult' = filteredCommits
  /\ filterPc' = "done"
  /\ UNCHANGED <<op, commits, excludeMergeBranches, filteredCommits, ci,
                 fetchVars, sortVars, singleVars, runVars>>

\* A call of getSingle.
GetSingle ==
  /\ op = "getSingle" /\ spc = "call"
  /\ LET r == getSingle(owner, repo, prNumber, apiOutcome, apiData)
     IN /\ singleResult' = r.result
        /\ warnings' = warnings \o r.warned
        /\ singleThrown' = r.thrown
  /\ spc' = "done"
  /\ UNCHANGED <<op, owner, repo, prNumber, apiOutcome, apiData,
                 fetchVars, sortVars, filterVars, runVars>>

\* core.setFailed(message): process.exitCode = 1 and the message is logged as
\* an error; no output is set.
SetFailed(message) ==
  /\ exitCode' = 1
  /\ failedMessage' = message

\* core.setOutput('failed', false) before the try block.
RunStart ==
  /\ op = "run" /\ rpc = "start"
  /\ outputs' = [outputs EXCEPT !.failed = "false"]
  /\ rpc' = "inputs"
  /\ UNCHANGED <<op, runInputs, exitCode, failedMessage, caught, written,
                 fetchVars, sortVars, filterVars, singleVars>>

\* Platform check, then path, configuration and inputs are read.
RunReadInputs ==
  /\ op = "run" /\ rpc = "inputs"
  /\ IF ~isSupportedPlatform(PlatformOrDefault(platform))
       THEN /\ SetFailed("platform not supported")
            /\ rpc' = "done"
            /\ UNCHANGED caught
       ELSE IF configThrows
         THEN /\ caught' = TRUE
              /\ SetFailed("configuration error")
              /\ rpc' = "done"
         ELSE /\ rpc' = "build"
              /\ UNCHANGED <<exitCode, failedMessage, caught>>
  /\ UNCHANGED <<op, runInputs, outputs, written,
                 fetchVars, sortVars, filterVars, singleVars>>

\* await new ReleaseNotesBuilder(...).build(), then core.setOutput('changelog', result).
RunBuild ==
  /\ op = "run" /\ rpc = "build"
  /\ IF buildThrows
       THEN /\ caught' = TRUE
            /\ SetFailed("build error")
            /\ rpc' = "done"
            /\ UNCHANGED outputs
       ELSE /\ outputs' = [outputs EXCEPT !.changelog = result]
            /\ rpc' = "write"
            /\ UNCHANGED <<exitCode, failedMessage, caught>>
  /\ UNCHANGED <<op, runInputs, written, fetchVars, sortVars, filterVars, singleVars>>

\* The changelog is written to outputFile when one is given.
RunWrite ==
  /\ op = "run" /\ rpc = "write"
  /\ IF outputFile # ""
       THEN IF writeThrows
              THEN /\ caught' = TRUE
                   /\ SetFailed("write error")
                   /\ UNCHANGED written
              ELSE /\ written' = TRUE
                   /\ UNCHANGED <<exitCode, failedMessage, caught>>
       ELSE UNCHANGED <<exitCode, failedMessage, caught, written>>
  /\ rpc' = "done"
  /\ UNCHANGED <<op, runInputs, outputs, fetchVars, sortVars, filterVars, singleVars>>

Next ==
  \/ NextPage \/ PageFails \/ Exhausted \/ SortCall
  \/ FilterCommit \/ FilterReturn
  \/ GetSingle
  \/ RunStart \/ RunReadInputs \/ RunBuild \/ RunWrite

Spec == Init /\ [][Next]_vars
\* ================================================================ claims
\* ------------------------------------------------ helpers of the claims
RECURSIVE Flatten(_)
Flatten(ps) == IF ps = <<>> THEN <<>> ELSE Head(ps) \o Flatten(Tail(ps))

\* every merged entry of the whole listing, as PullRequestInfo, in listing order
AllMerged == MergedOf(Flatten(pages))

Range(s) == {s[i] : i \in 1..Len(s)}

IsAscending(s) == \A i \in 1..(Len(s) - 1) : s[i].mergedAt <= s[i + 1].mergedAt
IsDescending(s) == \A i \in 1..(Len(s) - 1) : s[i].mergedAt >= s[i + 1].mergedAt

\* the elements of the lists carry distinct numbers
IsPermutation(s, t) == Len(s) = Len(t) /\ Range(s) = Range(t)

Fetching == op = "getBetweenDates"
Returned == Fetching /\ fpc = "returned"

\* the page the loop body ran for last
CurrentPage == pages[pageIdx]
\* the loop body has run for every page requested so far
PageProcessed == Fetching /\ pageIdx >= 1 /\ requested = pageIdx
\* the loop asks the iterator for one more page and the listing has one: the
\* guard of NextPage and PageFails, the two ways that request can go
FurtherRequest == Fetching /\ fpc = "iter" /\ pageIdx < Len(pages)

\* ---------------------------------------------------------------- C1
\* C1: when the listing holds at least maxPullRequests merged pull requests
\* newer than fromDate, getBetweenDates returns exactly maxPullRequests of them.
C1_BoundedFetch ==
  (Returned /\ Cardinality({e \in Range(AllMerged) : e.mergedAt > fromDate})
                 >= maxPullRequests)
    => Len(fetchResult) = maxPullRequests

\* ---------------------------------------------------------------- C2
\* C2 as stated: after a page is processed no further page is requested iff
\* the LAST item of the page was merged before fromDate, or the accumulated
\* count has reached maxPullRequests, or the pages are exhausted.  Stated for
\* the pages that have a last item.
C2_StopRuleLastItem ==
  (PageProcessed /\ CurrentPage # <<>>) =>
    (~FurtherRequest <=>
       \/ /\ CurrentPage[Len(CurrentPage)].merged_at # 0
          /\ CurrentPage[Len(CurrentPage)].merged_at < fromDate
       \/ Len(mergedPRs) >= maxPullRequests
       \/ pageIdx = Len(pages))

\* C2 amended: after a page is processed no further page is requested iff the
\* FIRST item of the page is merged and was merged strictly before fromDate,
\* or the accumulated count has reached maxPullRequests, or the pages are
\* exhausted, or the page is empty (the call then fails, see C10).
C2_StopRuleFirstItem ==
  PageProcessed =>
    (~FurtherRequest <=>
       \/ CurrentPage = <<>>
       \/ /\ CurrentPage # <<>>
          /\ CurrentPage[1].merged_at # 0
          /\ CurrentPage[1].merged_at < fromDate
       \/ Len(mergedPRs) >= maxPullRequests
       \/ pageIdx = Len(pages))

\* the first-item rule stops the scan although the last item of the page is
\* not older than fromDate, the bound is not reached and pages remain
C2_Witness ==
  /\ PageProcessed /\ fpc = "returned" /\ pageIdx < Len(pages)
  /\ Len(mergedPRs) < maxPullRequests
  /\ Len(CurrentPage) = MaxPageSize
  /\ CurrentPage[1].merged_at # 0 /\ CurrentPage[1].merged_at < fromDate
  /\ CurrentPage[Len(CurrentPage)].merged_at >= fromDate

\* ---------------------------------------------------------------- C3
\* C3 as stated: for a listing in any order, a return below maxPullRequests
\* contains every merged pull request not older than fromDate.
C3_NeverUnderFetch ==
  (Returned /\ Len(fetchResult) < maxPullRequests) =>
    \A e \in Range(AllMerged) :
      e.mergedAt >= fromDate => e \in Range(fetchResult)

\* the merged entries of the listing appear newest-merged first
MergeOrdered == IsDescending(AllMerged)

\* C3 amended: for a listing whose merged entries appear in non-increasing
\* merge-timestamp order, a return below maxPullRequests contains every merged
\* pull request of the whole listing that is not older than fromDate.
C3_NeverUnderFetchOrdered ==
  (Returned /\ Len(fetchResult) < maxPullRequests /\ MergeOrdered) =>
    \A e \in Range(AllMerged) :
      e.mergedAt >= fromDate => e \in Range(fetchResult)

\* an early exit that leaves a page with a merged entry unfetched, after a
\* merged entry inside the window was collected
C3_Witness ==
  /\ Returned /\ Len(fetchResult) < maxPullRequests /\ MergeOrdered
  /\ pageIdx < Len(pages)
  /\ \E e \in Range(fetchResult) : e.mergedAt >= fromDate
  /\ Len(AllMerged) > Len(fetchResult)

\* ---------------------------------------------------------------- C4
\* C4: sortPullRequests(items, true) is a permutation of items in ascending
\* merge-timestamp order, sortPullRequests(items, false) a permutation in
\* descending order, and every list getBetweenDates returns is ascending.
C4_Ordering ==
  /\ (op = "sortPullRequests" /\ sortPc = "done") =>
       /\ IsPermutation(sortResult, pullRequests)
       /\ ascending => IsAscending(sortResult)
       /\ ~ascending => IsDescending(sortResult)
  /\ Returned => IsAscending(fetchResult)

\* a descending sort of three pull requests that arrive oldest first, two of
\* them merged at the same time
C4_Witness ==
  /\ op = "sortPullRequests" /\ sortPc = "done" /\ ~ascending
  /\ Len(pullRequests) = 3
  /\ pullRequests[1].mergedAt < pullRequests[2].mergedAt
  /\ pullRequests[2].mergedAt = pullRequests[3].mergedAt
  /\ sortResult = <<pullRequests[2], pullRequests[3], pullRequests[1]>>

\* --------------------------------------------------------------- C10
\* C10: when every page is delivered without transport error, getBetweenDates
\* returns a list and does not fail, an empty page included.
C10_NoFailureWithoutTransportError ==
  (Fetching /\ fpc = "threw") => fetchError \in {"transport", "auth"}
\* ---------------------------------------------------------------- C5
\* sub is a substring of s
Contains(s, sub) ==
  \E i \in 0..(Len(s) - Len(sub)) : SubSeq(s, i + 1, i + Len(sub)) = sub

ContainsAnyExclude(s) ==
  \E k \in 1..Len(excludeMergeBranches) : Contains(s, excludeMergeBranches[k])

\* 'Merge pull request #' followed by a digit stands at position i of s
PrAt(s, i) ==
  /\ i + Len(PrLiteral) <= Len(s)
  /\ SubSeq(s, i, i + Len(PrLiteral) - 1) = PrLiteral
  /\ s[i + Len(PrLiteral)] \in Digits

Filtering == op = "filterCommits"

\* C5: a commit whose summary contains one of the exclude substrings never
\* appears in the output of filterCommits and never gets a prNumber, also when
\* its summary matches the merge-pull-request pattern.
C5_ExclusionPrecedence ==
  Filtering =>
    \A i \in 1..Len(commits) :
      ContainsAnyExclude(commits[i].summary) =>
        /\ commits[i].prNumber = Unassigned
        /\ \A k \in 1..Len(filteredCommits) : filteredCommits[k].sha # commits[i].sha

\* a commit that matches the pattern and the second exclude substring only was
\* dropped, while another commit was kept
C5_Witness ==
  /\ Filtering /\ filterPc = "done" /\ Len(filterResult) >= 1
  /\ Len(excludeMergeBranches) = 2
  /\ \E i \in 1..Len(commits) :
       /\ \E j \in 1..Len(commits[i].summary) : PrAt(commits[i].summary, j)
       /\ ~Contains(commits[i].summary, excludeMergeBranches[1])
       /\ Contains(commits[i].summary, excludeMergeBranches[2])
       /\ commits[i].prNumber = Unassigned

\* ---------------------------------------------------------------- C6
\* the decimal value of the digits of s at positions from..to
RECURSIVE Decimal(_, _, _)
Decimal(s, from, to) ==
  IF to < from THEN 0 ELSE Decimal(s, from, to - 1) * 10 + DigitValue(s[to])

\* the number written at position j of s: the digits up to the first non-digit
NumberAt(s, j) ==
  LET end == CHOOSE e \in j..Len(s) :
               /\ \A k \in j..e : s[k] \in Digits
               /\ (e = Len(s) \/ s[e + 1] \notin Digits)
  IN Decimal(s, j, end)

\* anchored: the pattern must stand at the start of the summary
AnchoredPosition(s) == IF PrAt(s, 1) THEN 1 ELSE 0

\* a search: the leftmost position of the summary where the pattern stands
SearchPosition(s) ==
  IF \E i \in 1..Len(s) : PrAt(s, i)
    THEN CHOOSE i \in 1..Len(s) : PrAt(s, i) /\ \A j \in 1..(i - 1) : ~PrAt(s, j)
    ELSE 0

\* the first n commits (as handed in, with the prNumber they must carry) that
\* are not excluded and in whose summary the pattern is found, anchored or by
\* search; position 0 stands for a summary without a match
RECURSIVE Reconciled(_, _, _)
Reconciled(cs, n, anchored) ==
  IF n = 0 THEN <<>>
  ELSE LET c == cs[n]
           at == IF anchored THEN AnchoredPosition(c.summary)
                             ELSE SearchPosition(c.summary)
       IN IF ~ContainsAnyExclude(c.summary) /\ at # 0
            THEN Append(Reconciled(cs, n - 1, anchored),
                        [sha |-> c.sha, summary |-> c.summary,
                         prNumber |-> NumberAt(c.summary, at + Len(PrLiteral))])
            ELSE Reconciled(cs, n - 1, anchored)

\* C6 as stated: the output of filterCommits is, in input order, the
\* non-excluded commits whose summary matches the anchored pattern
\* 'Merge pull request #<N>', each with prNumber = N.
C6_ReconciledAnchored ==
  (Filtering /\ filterPc = "done") =>
    filterResult = Reconciled(commits, Len(commits), TRUE)

\* C6 amended: the output of filterCommits is, in input order, the non-excluded
\* commits whose summary contains 'Merge pull request #<N>' anywhere (a
\* case-sensitive search that is not anchored), each with prNumber = N for the
\* leftmost occurrence.
C6_ReconciledSearch ==
  (Filtering /\ filterPc = "done") =>
    filterResult = Reconciled(commits, Len(commits), FALSE)

\* a commit whose summary holds the pattern behind other text was kept, with a
\* two-digit pull request number kept beside it
C6_Witness ==
  /\ Filtering /\ filterPc = "done" /\ Len(filterResult) = 2
  /\ \E k \in 1..2 : /\ ~PrAt(filterResult[k].summary, 1)
                     /\ filterResult[k].prNumber = 7
  /\ \E k \in 1..2 : filterResult[k].prNumber = 12

\* ---------------------------------------------------------------- C7
SingleDone == op = "getSingle" /\ spc = "done"

\* C7: when the platform reports the pull request as not found, getSingle
\* returns null, logs exactly one warning naming owner/repo#number and does
\* not fail.
C7_Soft404 ==
  (SingleDone /\ apiOutcome = "not_found") =>
    /\ singleResult = Null
    /\ Len(warnings) = 1
    /\ warnings[1].owner = owner /\ warnings[1].repo = repo
    /\ warnings[1].prNumber = prNumber
    /\ ~singleThrown

C7_Witness ==
  /\ SingleDone /\ apiOutcome = "not_found"
  /\ singleResult = Null /\ Len(warnings) = 1

\* ---------------------------------------------------------------- C8
\* C8: a transport or authentication failure of the platform call surfaces as
\* a failure of getSingle and of getBetweenDates; only not-found is soft.
C8_FailuresSurface ==
  /\ (SingleDone /\ apiOutcome \in {"transport", "auth"}) => singleThrown
  /\ (SingleDone /\ apiOutcome = "not_found") => ~singleThrown
  /\ (Fetching /\ fetchError \in {"transport", "auth"}) => fpc = "threw"

\* ---------------------------------------------------------------- C9
RunDone == op = "run" /\ rpc = "done"

RunSucceeded ==
  /\ outputs.changelog = result /\ outputs.failed = "false"
  /\ exitCode = 0 /\ ~caught

RunFailed == exitCode = 1 /\ failedMessage # ""

\* C9: run() ends either in success (changelog output set, 'failed' output
\* false) or in failure (failure flag and message set); the 'failed' output is
\* never false at the end of a run in which an error was caught.
C9_RunOutcome ==
  RunDone =>
    /\ RunSucceeded \/ RunFailed
    /\ caught => outputs.failed # "false"
====
